---------------------------- MODULE Spec2Model ----------------------------
(***************************************************************************)
(* A model of rpm-next: the dependency resolver (resolver.rs), the         *)
(* installed-package database and the transaction layer (main.rs), and the *)
(* repository cache (repository.rs).                                       *)
(*                                                                         *)
(* Strings that the code only compares for equality (package names, file   *)
(* paths) are TLA+ strings.  Version strings are parsed by the code, so    *)
(* they are sequences of one-character strings.  Option<T> is a sequence   *)
(* of length 0 (None) or 1 (Some).  A HashMap / BTreeMap is a function     *)
(* whose DOMAIN is the key set.                                            *)
(***************************************************************************)
EXTENDS Integers, Sequences, FiniteSets, TLC

VARIABLES
    packages,     \* Resolver.packages : name -> Vec<PackageInfo> (absent key = <<>>)
    installed,    \* Resolver.installed : name -> PackageInfo
    solution,     \* Resolver.solution : Vec<PackageInfo>
    resolved,     \* the last Resolver::resolve call, its request and what it returned,
                  \* for as long as the catalog and the installed set are those it saw;
                  \* prev is what the call before it returned when that call had the
                  \* same request and saw the same catalog and installed set;
                  \* earlier tells whether the call before it failed and whether
                  \* self.solution held records when the call started
    adds,         \* number of add_available calls made so far
    run,          \* position of a resolve call that is executed loop iteration by iteration
    dbPackages,   \* PackageDatabase.packages : name -> PackageInfo
    dbFiles,      \* PackageDatabase.files : path -> owning package name
    lastOp,       \* the last database / RpmNext call: arguments, ledger before, result
    call,         \* the last application of a function that reads no state of the
                  \* resolver or the database: its arguments and what it returned
    repos,        \* RepositoryCache.repos : repository name -> RepositoryIndex
    syncs         \* the RepositoryCache::sync calls made so far, in order: the
                  \* Repository handed over and whether the call returned Ok

vars == <<packages, installed, solution, resolved, adds, run, dbPackages, dbFiles, lastOp,
          call, repos, syncs>>

resolverVars == <<packages, installed, solution, resolved, adds, run>>
dbVars == <<dbPackages, dbFiles, lastOp>>
pureVars == <<call>>
cacheVars == <<repos, syncs>>

---------------------------------------------------------------------------
(* Generic helpers for maps, options and sequences                         *)

None == <<>>
Some(x) == <<x>>

MapInsert(m, k, v) == [x \in DOMAIN m \cup {k} |-> IF x = k THEN v ELSE m[x]]
MapRemove(m, k) == [x \in DOMAIN m \ {k} |-> m[x]]
EmptyMap == [x \in {} |-> x]

Range(s) == {s[i] : i \in 1..Len(s)}
Front(s) == SubSeq(s, 1, Len(s) - 1)
Last(s) == s[Len(s)]

---------------------------------------------------------------------------
(* Data model: main.rs PackageInfo, Dependency, VersionConstraint, PkgError *)

Dep(n) == [name |-> n, version_constraint |-> None]
DepC(n, op, v) == [name |-> n, version_constraint |-> Some([operator |-> op, version |-> v])]

PackageInfo(n, v, fmt, sz, deps, confl, prov, fls) ==
    [name |-> n, version |-> v, format |-> fmt, size |-> sz, dependencies |-> deps,
     conflicts |-> confl, provides |-> prov, files |-> fls]

NoError == [kind |-> "None", name |-> ""]
PkgError(k, n) == [kind |-> k, name |-> n]
Ok(v) == [ok |-> TRUE, val |-> v, err |-> NoError]
Err(e) == [ok |-> FALSE, val |-> <<>>, err |-> e]

DepNames(pkg) == [i \in 1..Len(pkg.dependencies) |-> pkg.dependencies[i].name]
NamesOf(s) == [i \in 1..Len(s) |-> s[i].name]

---------------------------------------------------------------------------
(* Version algebra: resolver.rs compare_versions / version_satisfies       *)

Digits == {"0", "1", "2", "3", "4", "5", "6", "7", "8", "9"}

DigitVal(c) ==
    CASE c = "0" -> 0 [] c = "1" -> 1 [] c = "2" -> 2 [] c = "3" -> 3 [] c = "4" -> 4
      [] c = "5" -> 5 [] c = "6" -> 6 [] c = "7" -> 7 [] c = "8" -> 8 [] c = "9" -> 9

\* str::parse::<u32>: an optional leading "+", then one ASCII digit or more; Err on
\* anything else, the empty string and a lone "+" included.  Every version string
\* of this model has runs of fewer than ten digits, so the value always fits in
\* u32 and the overflow Err cannot occur.
RECURSIVE RunValue(_, _)
RunValue(p, i) == IF i = 0 THEN 0 ELSE 10 * RunValue(p, i - 1) + DigitVal(p[i])

StripPlus(p) == IF p # <<>> /\ p[1] = "+" THEN Tail(p) ELSE p

ParseU32(p) ==
    CHOOSE parsed \in
        { IF q = <<>> \/ ~(Range(q) \subseteq Digits) THEN None ELSE Some(RunValue(q, Len(q))) :
            q \in {StripPlus(p)} } : TRUE

\* s.split(pred): the pieces between separator characters, empty pieces included.
\* Keep is the set of characters that are not separators.
\* i is the position of the next character, cur the piece being read, acc the
\* pieces read; the pieces are bound as values before the next character is read.
RECURSIVE SplitAt(_, _, _, _, _)
SplitAt(s, Keep, i, cur, acc) ==
    IF i > Len(s) THEN Append(acc, cur)
    ELSE CHOOSE pieces \in
           { SplitAt(s, Keep, i + 1, c, a) :
               c \in {IF s[i] \notin Keep THEN <<>> ELSE Append(cur, s[i])},
               a \in {IF s[i] \notin Keep THEN Append(acc, cur) ELSE acc} } : TRUE

\* .filter_map(|p| p.parse().ok()).collect()
RECURSIVE FilterMapParse(_, _)
FilterMapParse(parts, i) ==
    IF i > Len(parts) THEN <<>>
    ELSE ParseU32(parts[i]) \o FilterMapParse(parts, i + 1)

\* the closure `parse` of compare_versions: split on every non-digit character
ParseDigits(s) ==
    CHOOSE v \in {FilterMapParse(parts, 1) : parts \in {SplitAt(s, Digits, 1, <<>>, <<>>)}} : TRUE

CmpInt(x, y) == IF x < y THEN "Less" ELSE IF x > y THEN "Greater" ELSE "Equal"

\* the zip loop followed by the comparison of the lengths
\* The first definition is a variant without the comparison of the lengths: two
\* versions compare Equal when one parses to a prefix of the other.
RECURSIVE CompareParsed_zip_only(_, _, _)
CompareParsed_zip_only(va, vb, i) ==
    IF i > Len(va) \/ i > Len(vb) THEN "Equal"
    ELSE IF CmpInt(va[i], vb[i]) = "Equal" THEN CompareParsed_zip_only(va, vb, i + 1)
    ELSE CmpInt(va[i], vb[i])

RECURSIVE CompareParsed(_, _, _)
CompareParsed(va, vb, i) ==
    IF i > Len(va) \/ i > Len(vb) THEN CmpInt(Len(va), Len(vb))
    ELSE IF CmpInt(va[i], vb[i]) = "Equal" THEN CompareParsed(va, vb, i + 1)
    ELSE CmpInt(va[i], vb[i])

\* va and vb are bound as values: each string is parsed once
compare_versions(a, b) ==
    CHOOSE ord \in {CompareParsed(va, vb, 1) : va \in {ParseDigits(a)}, vb \in {ParseDigits(b)}} :
        TRUE

\* main.rs version_compare: the pieces between "." characters, parsed as u32,
\* unparsable pieces dropped; 1 / -1 at the first differing position, else the
\* comparison of the lengths as i32 (Less = -1, Equal = 0, Greater = 1)
Alphabet == Digits \cup {".", "-", "+"}

ParseDots(s) ==
    CHOOSE v \in {FilterMapParse(parts, 1) :
                    parts \in {SplitAt(s, Alphabet \ {"."}, 1, <<>>, <<>>)}} : TRUE

OrderingAsI32(ord) == CASE ord = "Less" -> -1 [] ord = "Equal" -> 0 [] ord = "Greater" -> 1

version_compare(a, b) ==
    CHOOSE r \in {OrderingAsI32(CompareParsed(va, vb, 1)) :
                    va \in {ParseDots(a)}, vb \in {ParseDots(b)}} : TRUE

\* a variant in which <= and >= are strict
version_satisfies_strict(version, constraint) ==
    LET cmp == compare_versions(version, constraint.version)
    IN  CASE constraint.operator = "Eq" -> cmp = "Equal"
          [] constraint.operator = "Lt" -> cmp = "Less"
          [] constraint.operator = "Le" -> cmp = "Less"
          [] constraint.operator = "Gt" -> cmp = "Greater"
          [] constraint.operator = "Ge" -> cmp = "Greater"

version_satisfies(version, constraint) ==
    LET cmp == compare_versions(version, constraint.version)
    IN  CASE constraint.operator = "Eq" -> cmp = "Equal"
          [] constraint.operator = "Lt" -> cmp = "Less"
          [] constraint.operator = "Le" -> cmp # "Greater"
          [] constraint.operator = "Gt" -> cmp = "Greater"
          [] constraint.operator = "Ge" -> cmp # "Less"

---------------------------------------------------------------------------
(* Resolver (resolver.rs)                                                  *)

\* Iterator::max_by keeps the LAST of several equally maximal elements: the fold
\* replaces the running maximum unless it compares Greater than the next element.
\* `best` is the running maximum over versions[1..i-1], bound as a value.
RECURSIVE MaxByVersion(_, _, _)
MaxByVersion(versions, i, best) ==
    IF i > Len(versions) THEN best
    ELSE CHOOSE max \in
           { MaxByVersion(versions, i + 1, b) :
               b \in {IF compare_versions(best.version, versions[i].version) = "Greater"
                      THEN best ELSE versions[i]} } : TRUE

\* a variant that takes the first version pushed instead of the highest
find_best_version_first(pk, name) ==
    IF name \notin DOMAIN pk \/ pk[name] = <<>>
    THEN Err(PkgError("PackageNotFound", name))
    ELSE Ok(Head(pk[name]))

find_best_version(pk, name) ==
    IF name \notin DOMAIN pk \/ pk[name] = <<>>
    THEN Err(PkgError("PackageNotFound", name))
    ELSE Ok(MaxByVersion(pk[name], 2, pk[name][1]))

RECURSIVE FirstSatisfying(_, _)
FirstSatisfying(versions, constraint) ==
    IF versions = <<>> THEN None
    ELSE IF version_satisfies(Head(versions).version, constraint) THEN Some(Head(versions))
    ELSE FirstSatisfying(Tail(versions), constraint)

\* Defined by the code but called from nowhere in it.
find_version_satisfying(pk, name, constraint) ==
    IF name \notin DOMAIN pk \/ pk[name] = <<>>
    THEN Err(PkgError("PackageNotFound", name))
    ELSE LET hit == FirstSatisfying(pk[name], constraint)
         IN  IF hit = None THEN Err(PkgError("DependencyError", name)) ELSE Ok(hit[1])

\* `for dep in &pkg.dependencies { if !seen.contains && !installed.contains_key { push } }`
\* (seen does not change inside this loop).
\* The first definition is a variant that looks at the first dependency only.
PushDeps_first_only(to_install, deps, seen, inst) ==
    IF deps = <<>> THEN to_install
    ELSE IF Head(deps) \notin seen /\ Head(deps) \notin DOMAIN inst
         THEN Append(to_install, Head(deps)) ELSE to_install

RECURSIVE PushDeps(_, _, _, _)
PushDeps(to_install, deps, seen, inst) ==
    IF deps = <<>> THEN to_install
    ELSE PushDeps(IF Head(deps) \notin seen /\ Head(deps) \notin DOMAIN inst
                  THEN Append(to_install, Head(deps)) ELSE to_install,
                  Tail(deps), seen, inst)

\* One iteration of `while let Some(name) = to_install.pop()`.
\* st = [to_install, seen, solution, err]; err # NoError is the early return of `?`.
\* The first definition is a variant without the `if seen.contains(&name) { continue }`
\* at the top of the loop body.
WorkStep_no_seen_check(st, pk, inst) ==
    LET name == Last(st.to_install)
        rest == Front(st.to_install)
        seen2 == st.seen \cup {name}
    IN  IF name \in DOMAIN inst
        THEN [st EXCEPT !.to_install = rest, !.seen = seen2]
        ELSE LET found == find_best_version(pk, name)
             IN  IF ~found.ok
                 THEN [st EXCEPT !.to_install = rest, !.seen = seen2, !.err = found.err]
                 ELSE [st EXCEPT
                         !.to_install = PushDeps(rest, DepNames(found.val), seen2, inst),
                         !.seen = seen2,
                         !.solution = Append(st.solution, found.val)]

\* a variant without the `if self.installed.contains_key(&name) { continue }`
WorkStep_no_installed_check(st, pk, inst) ==
    LET name == Last(st.to_install)
        rest == Front(st.to_install)
    IN  IF name \in st.seen THEN [st EXCEPT !.to_install = rest]
        ELSE LET seen2 == st.seen \cup {name}
                 found == find_best_version(pk, name)
             IN  IF ~found.ok
                 THEN [st EXCEPT !.to_install = rest, !.seen = seen2, !.err = found.err]
                 ELSE [st EXCEPT
                         !.to_install = PushDeps(rest, DepNames(found.val), seen2, inst),
                         !.seen = seen2,
                         !.solution = Append(st.solution, found.val)]

\* a variant that goes on to the next name when the lookup fails, where the code
\* returns the error with `?`
WorkStep_skip_missing(st, pk, inst) ==
    LET name == Last(st.to_install)
        rest == Front(st.to_install)
    IN  IF name \in st.seen THEN [st EXCEPT !.to_install = rest]
        ELSE LET seen2 == st.seen \cup {name}
             IN  IF name \in DOMAIN inst
                 THEN [st EXCEPT !.to_install = rest, !.seen = seen2]
                 ELSE LET found == find_best_version(pk, name)
                      IN  IF ~found.ok
                          THEN [st EXCEPT !.to_install = rest, !.seen = seen2]
                          ELSE [st EXCEPT
                                  !.to_install = PushDeps(rest, DepNames(found.val), seen2, inst),
                                  !.seen = seen2,
                                  !.solution = Append(st.solution, found.val)]

WorkStep(st, pk, inst) ==
    LET name == Last(st.to_install)
        rest == Front(st.to_install)
    IN  IF name \in st.seen THEN [st EXCEPT !.to_install = rest]
        ELSE LET seen2 == st.seen \cup {name}
             IN  IF name \in DOMAIN inst
                 THEN [st EXCEPT !.to_install = rest, !.seen = seen2]
                 ELSE LET found == find_best_version(pk, name)
                      IN  IF ~found.ok
                          THEN [st EXCEPT !.to_install = rest, !.seen = seen2,
                                          !.err = found.err]
                          ELSE [st EXCEPT
                                  !.to_install = PushDeps(rest, DepNames(found.val), seen2, inst),
                                  !.seen = seen2,
                                  !.solution = Append(st.solution, found.val)]

RECURSIVE WorkLoop(_, _, _)
WorkLoop(st, pk, inst) ==
    IF st.to_install = <<>> \/ st.err # NoError THEN st
    ELSE WorkLoop(WorkStep(st, pk, inst), pk, inst)

\* remaining.retain(|pkg| ...): one scan over `remaining` in order; `satisfied`,
\* `result` and `made_progress` are updated while the scan is running.
\* ps = [satisfied, result, kept, made_progress]
RECURSIVE RetainPass(_, _)
RetainPass(remaining, ps) ==
    IF remaining = <<>> THEN ps
    ELSE LET pkg == Head(remaining)
             deps_satisfied == \A i \in 1..Len(pkg.dependencies) :
                                   pkg.dependencies[i].name \in ps.satisfied
         IN  RetainPass(Tail(remaining),
                        IF deps_satisfied
                        THEN [ps EXCEPT !.satisfied = ps.satisfied \cup {pkg.name},
                                        !.result = Append(ps.result, pkg),
                                        !.made_progress = TRUE]
                        ELSE [ps EXCEPT !.kept = Append(ps.kept, pkg)])

\* "Circular dependency - just add remaining": result.extend(remaining.drain(..))
\* The first definition is a variant without the deadlock break: `remaining` is
\* left as the pass found it and the loop goes round again.
BreakDeadlock_none(ps) ==
    [remaining |-> ps.kept, satisfied |-> ps.satisfied, result |-> ps.result]

\* a variant that empties `remaining` without appending it to the result
BreakDeadlock_drop(ps) ==
    [remaining |-> <<>>, satisfied |-> ps.satisfied, result |-> ps.result]

BreakDeadlock(ps) ==
    [remaining |-> <<>>, satisfied |-> ps.satisfied, result |-> ps.result \o ps.kept]

\* One iteration of `while !remaining.is_empty()`.  st = [remaining, satisfied, result]
SortIteration(st) ==
    LET ps == RetainPass(st.remaining,
                         [satisfied |-> st.satisfied, result |-> st.result,
                          kept |-> <<>>, made_progress |-> FALSE])
    IN  IF ~ps.made_progress /\ ps.kept # <<>>
        THEN BreakDeadlock(ps)
        ELSE [remaining |-> ps.kept, satisfied |-> ps.satisfied, result |-> ps.result]

RECURSIVE SortLoop(_)
SortLoop(st) == IF st.remaining = <<>> THEN st.result ELSE SortLoop(SortIteration(st))

SortStart(sol, inst) == [remaining |-> sol, satisfied |-> DOMAIN inst, result |-> <<>>]

\* a variant that leaves the solution in worklist order
topological_sort_unsorted(sol, inst) == sol

topological_sort(sol, inst) == SortLoop(SortStart(sol, inst))

\* self.solution.clear(); to_install = requests; seen = {}
\* The first definition is a variant without the clear: the loop pushes onto what
\* the previous call left in self.solution.
WorkStart_no_clear(requests) ==
    [to_install |-> requests, seen |-> {}, solution |-> solution, err |-> NoError]

\* a variant in which the names of the records an earlier call left count as seen
WorkStart_keep_seen(requests) ==
    [to_install |-> requests, seen |-> Range(NamesOf(solution)), solution |-> <<>>,
     err |-> NoError]

WorkStart(requests) ==
    [to_install |-> requests, seen |-> {}, solution |-> <<>>, err |-> NoError]

\* Resolver::resolve as a whole: the new value of self.solution and what is returned.
\* On the early return of `?` self.solution keeps what the loop had pushed.
\* The first definition is a variant that hands the records pushed so far back
\* together with the error.
resolve_partial(requests, pk, inst) ==
    LET w == WorkLoop(WorkStart(requests), pk, inst)
    IN  IF w.err # NoError
        THEN [solution |-> w.solution,
              result |-> [ok |-> FALSE, val |-> w.solution, err |-> w.err]]
        ELSE LET sorted == topological_sort(w.solution, inst)
             IN  [solution |-> sorted, result |-> Ok(sorted)]

resolve(requests, pk, inst) ==
    LET w == WorkLoop(WorkStart(requests), pk, inst)
    IN  IF w.err # NoError
        THEN [solution |-> w.solution, result |-> Err(w.err)]
        ELSE LET sorted == topological_sort(w.solution, inst)
             IN  [solution |-> sorted, result |-> Ok(sorted)]

---------------------------------------------------------------------------
(* Inputs of the resolver: the records and batches handed to add_available  *)
(* and set_installed, and the requests handed to resolve                    *)

MaxAdds == 2        \* add_available calls per behaviour

V10 == <<"1", ".", "0">>
V19 == <<"1", ".", "9">>
V20 == <<"2", ".", "0">>
V21 == <<"2", ".", "1">>
V30 == <<"3", ".", "0">>

Rec(n, v, deps, confl, prov) == PackageInfo(n, v, "Native", 1, deps, confl, prov, <<>>)

\* the end-to-end scenario: app 1.0 needs lib >= 2.0; lib 2.1 and lib 1.9 exist
app10 == Rec("app", V10, <<DepC("lib", "Ge", V20)>>, <<>>, <<>>)
lib21 == Rec("lib", V21, <<>>, <<>>, <<>>)
lib19 == Rec("lib", V19, <<>>, <<>>, <<>>)
\* a cycle a -> b -> c -> a
a10 == Rec("a", V10, <<Dep("b")>>, <<>>, <<>>)
b10 == Rec("b", V10, <<Dep("c")>>, <<>>, <<>>)
c10 == Rec("c", V10, <<Dep("a")>>, <<>>, <<>>)
\* a diamond app -> {a, b} -> lib
app20 == Rec("app", V20, <<Dep("a"), Dep("b")>>, <<>>, <<>>)
a20 == Rec("a", V20, <<Dep("lib")>>, <<>>, <<>>)
b20 == Rec("b", V20, <<Dep("lib")>>, <<>>, <<>>)
\* a declares a conflict with b
a30 == Rec("a", V30, <<>>, <<"b">>, <<>>)
b30 == Rec("b", V30, <<>>, <<>>, <<>>)
\* lib 3.0 provides the virtual name v, which c 2.0 depends on
lib30 == Rec("lib", V30, <<>>, <<>>, <<"v">>)
c20 == Rec("c", V20, <<Dep("v")>>, <<>>, <<>>)
\* c 2.1 needs lib < 2.0
c21 == Rec("c", V21, <<DepC("lib", "Lt", V20)>>, <<>>, <<>>)

\* two sources offer lib at the identical version string 2.1: the source "main"
\* with priority 10 a Deb record, the source "extra" with priority 5 the record lib21
Repository(n, url, fmt, en, prio) ==
    [name |-> n, url |-> url, format |-> fmt, enabled |-> en, gpg_key |-> None,
     priority |-> prio]
RepositoryIndex(repo, pkgs) == [repo |-> repo, packages |-> pkgs, last_sync |-> 0]

lib21deb == PackageInfo("lib", V21, "Deb", 2, <<>>, <<>>, <<>>, <<>>)
SourceMain == RepositoryIndex(Repository("main", "u1", "Deb", TRUE, 10), <<lib21deb>>)
SourceExtra == RepositoryIndex(Repository("extra", "u1", "Native", TRUE, 5), <<lib21>>)
Sources == {SourceMain, SourceExtra}

AvailableBatches ==
    { <<app10, lib21, lib19>>, <<lib19, lib21, app10>>,
      <<a10, b10, c10>>,
      <<app20, a20, b20, lib21>>,
      <<app20, a30, b30>>,
      <<lib30, c20>>,
      <<c21>>, <<lib21>> }

InstalledBatches == { <<lib19>>, <<lib30>>, <<b10>> }

\* one name, a repeated name, two names, a name no record has, nothing
Requests ==
    { <<>>, <<"app">>, <<"a">>, <<"c">>, <<"lib">>, <<"v">>,
      <<"app", "app">>, <<"lib", "c">>, <<"a", "app">>, <<"c", "a">> }

---------------------------------------------------------------------------
(* The resolver as a state machine                                         *)

\* add_available: `for pkg in packages { entry(name).or_insert_with(Vec::new).push(pkg) }`
RECURSIVE PushAll(_, _)
PushAll(pk, batch) ==
    IF batch = <<>> THEN pk
    ELSE LET pkg == Head(batch)
             old == IF pkg.name \in DOMAIN pk THEN pk[pkg.name] ELSE <<>>
         IN  PushAll(MapInsert(pk, pkg.name, Append(old, pkg)), Tail(batch))

\* set_installed: `for pkg in packages { installed.insert(name, pkg) }`
RECURSIVE InsertAll(_, _)
InsertAll(inst, batch) ==
    IF batch = <<>> THEN inst
    ELSE InsertAll(MapInsert(inst, Head(batch).name, Head(batch)), Tail(batch))

NoRun == [pc |-> "idle", requests |-> <<>>, work |-> WorkStart(<<>>),
          sort |-> SortStart(<<>>, EmptyMap)]
NoEarlier == [failed |-> FALSE, leftover |-> FALSE]
NoCall == [called |-> FALSE, requests |-> <<>>, result |-> Ok(<<>>), prev |-> None,
           earlier |-> NoEarlier]
NoOp == [op |-> "none", names |-> <<>>, beforePackages |-> EmptyMap,
         beforeFiles |-> EmptyMap, result |-> Ok(<<>>),
         tx |-> [install |-> <<>>, remove |-> <<>>, upgrade |-> <<>>,
                 download_size |-> 0, size_change |-> 0],
         log |-> <<>>]

InitResolver ==
    /\ packages = EmptyMap
    /\ installed = EmptyMap
    /\ solution = <<>>
    /\ resolved = NoCall
    /\ adds = 0
    /\ run = NoRun

InitDb ==
    /\ dbPackages = EmptyMap
    /\ dbFiles = EmptyMap
    /\ lastOp = NoOp

NoApplication == [op |-> "none", args |-> <<>>, result |-> <<>>]

InitPure == call = NoApplication

\* RepositoryCache::new: repos is HashMap::new()
InitCache ==
    /\ repos = EmptyMap
    /\ syncs = <<>>

Init == InitResolver /\ InitDb /\ InitPure /\ InitCache

AddAvailable(batch) ==
    /\ run.pc = "idle"
    /\ adds < MaxAdds
    /\ packages' = PushAll(packages, batch)
    /\ adds' = adds + 1
    /\ resolved' = NoCall
    /\ UNCHANGED <<installed, solution, run, dbVars, pureVars, cacheVars>>

SetInstalled(batch) ==
    /\ run.pc = "idle"
    /\ installed' = InsertAll(installed, batch)
    /\ resolved' = NoCall
    /\ UNCHANGED <<packages, solution, adds, run, dbVars, pureVars, cacheVars>>

\* the packages of a source's index handed to add_available
AddSource(source) ==
    /\ run.pc = "idle"
    /\ adds < MaxAdds
    /\ packages' = PushAll(packages, source.packages)
    /\ adds' = adds + 1
    /\ resolved' = NoCall
    /\ UNCHANGED <<installed, solution, run, dbVars, pureVars, cacheVars>>

Resolve(requests) ==
    /\ run.pc = "idle"
    /\ \E r \in {resolve(requests, packages, installed)} :
           /\ solution' = r.solution
           /\ resolved' = [called |-> TRUE, requests |-> requests, result |-> r.result,
                           prev |-> IF resolved.called /\ resolved.requests = requests
                                    THEN Some(resolved.result) ELSE None,
                           earlier |-> [failed |-> resolved.called /\ ~resolved.result.ok,
                                        leftover |-> solution # <<>>]]
    /\ UNCHANGED <<packages, installed, adds, run, dbVars, pureVars, cacheVars>>

Next ==
    \/ \E batch \in AvailableBatches : AddAvailable(batch)
    \/ \E source \in Sources : AddSource(source)
    \/ \E batch \in InstalledBatches : SetInstalled(batch)
    \/ \E requests \in Requests : Resolve(requests)

Spec == Init /\ [][Next]_vars

---------------------------------------------------------------------------
(* Resolver::resolve executed one loop iteration at a time.  run.pc is the  *)
(* position of the call: "work" in the worklist loop, "sort" in the loop of *)
(* topological_sort, "idle" when no call is in progress.                    *)

StartResolve(requests) ==
    /\ run.pc = "idle"
    /\ solution' = <<>>
    /\ run' = [pc |-> "work", requests |-> requests, work |-> WorkStart(requests),
               sort |-> SortStart(<<>>, EmptyMap)]
    /\ resolved' = NoCall
    /\ UNCHANGED <<packages, installed, adds, dbVars, pureVars, cacheVars>>

\* one iteration of the worklist loop; a failed lookup returns the error
WorkIteration ==
    /\ run.pc = "work" /\ run.work.to_install # <<>>
    /\ \E w \in {WorkStep(run.work, packages, installed)} :
           /\ solution' = w.solution
           /\ run' = IF w.err # NoError THEN NoRun ELSE [run EXCEPT !.work = w]
           /\ resolved' = IF w.err # NoError
                          THEN [called |-> TRUE, requests |-> run.requests,
                                result |-> Err(w.err), prev |-> None,
                                earlier |-> NoEarlier]
                          ELSE resolved
    /\ UNCHANGED <<packages, installed, adds, dbVars, pureVars, cacheVars>>

\* the worklist is empty: topological_sort starts and drains self.solution
WorkDone ==
    /\ run.pc = "work" /\ run.work.to_install = <<>>
    /\ solution' = <<>>
    /\ run' = [run EXCEPT !.pc = "sort", !.sort = SortStart(solution, installed)]
    /\ UNCHANGED <<packages, installed, resolved, adds, dbVars, pureVars, cacheVars>>

\* one iteration of `while !remaining.is_empty()`
SortStep ==
    /\ run.pc = "sort" /\ run.sort.remaining # <<>>
    /\ run' = [run EXCEPT !.sort = SortIteration(run.sort)]
    /\ UNCHANGED <<packages, installed, solution, resolved, adds, dbVars, pureVars, cacheVars>>

\* self.solution = result; Ok(self.solution.clone())
SortDone ==
    /\ run.pc = "sort" /\ run.sort.remaining = <<>>
    /\ solution' = run.sort.result
    /\ resolved' = [called |-> TRUE, requests |-> run.requests,
                    result |-> Ok(run.sort.result), prev |-> None,
                    earlier |-> NoEarlier]
    /\ run' = NoRun
    /\ UNCHANGED <<packages, installed, adds, dbVars, pureVars, cacheVars>>

ResolveStep == WorkIteration \/ WorkDone \/ SortStep \/ SortDone

NextSteps ==
    \/ \E batch \in AvailableBatches : AddAvailable(batch)
    \/ \E batch \in InstalledBatches : SetInstalled(batch)
    \/ \E requests \in Requests : StartResolve(requests)
    \/ WorkIteration
    \/ WorkDone
    \/ SortStep
    \/ SortDone

\* resolve is synchronous code: a call that has started keeps executing
SpecSteps == Init /\ [][NextSteps]_vars /\ WF_vars(ResolveStep)

---------------------------------------------------------------------------
(* Vocabulary of the properties of the resolver                            *)

ResolvedOk == resolved.called /\ resolved.result.ok
Output == resolved.result.val
OutputNames == Range(NamesOf(Output))

\* dependency edges among the records of a set, by name
DepsWithin(recs, n) ==
    {d \in {r.name : r \in recs} :
        \E r \in recs : r.name = n /\ d \in Range(DepNames(r))}

RECURSIVE ReachWithin(_, _)
ReachWithin(recs, S) ==
    LET more == S \cup UNION {DepsWithin(recs, n) : n \in S}
    IN  IF more = S THEN S ELSE ReachWithin(recs, more)

HasCycle(recs) ==
    \E n \in {r.name : r \in recs} : n \in ReachWithin(recs, DepsWithin(recs, n))

\* the names a request reaches: a name that is not installed and has a record
\* contributes the dependency names of the record the resolver picks for it
Expandable(n) == n \notin DOMAIN installed /\ n \in DOMAIN packages
Picked(n) == find_best_version(packages, n).val

RECURSIVE ReachFrom(_)
ReachFrom(S) ==
    LET more == S \cup UNION {Range(DepNames(Picked(n))) : n \in {m \in S : Expandable(m)}}
    IN  IF more = S THEN S ELSE ReachFrom(more)

Reachable(requests) == ReachFrom(Range(requests))
PlannedNames(requests) == {n \in Reachable(requests) : Expandable(n)}
AllFound(requests) ==
    \A n \in Reachable(requests) : n \in DOMAIN installed \/ n \in DOMAIN packages
PlannedRecords(requests) == {Picked(n) : n \in PlannedNames(requests)}

---------------------------------------------------------------------------
(* C1: topological validity.  In a successful resolve whose output has no   *)
(* dependency cycle, every dependency name of an output record R that is    *)
(* itself in the output stands at a strictly earlier position than R.       *)
C1_TopologicalValidity ==
    (ResolvedOk /\ ~HasCycle(Range(Output))) =>
        \A i \in 1..Len(Output) : \A k \in 1..Len(Output[i].dependencies) :
            \A j \in 1..Len(Output) :
                Output[j].name = Output[i].dependencies[k].name => j < i

\* a diamond was resolved: a record with two dependencies in the output, both of
\* which depend on one further output record
C1_Witness ==
    /\ ResolvedOk /\ ~HasCycle(Range(Output))
    /\ \E i, j, k, l \in 1..Len(Output) :
          /\ j # k
          /\ {Output[j].name, Output[k].name} \subseteq Range(DepNames(Output[i]))
          /\ Output[l].name \in Range(DepNames(Output[j]))
          /\ Output[l].name \in Range(DepNames(Output[k]))

(* C9: the end-to-end scenario.  With nothing installed and a catalog that  *)
(* holds app 1.0 (needs lib >= 2.0), lib 2.1 and lib 1.9 in either          *)
(* insertion order, resolving ["app"] returns exactly [lib 2.1, app 1.0].   *)
ScenarioCatalog ==
    /\ DOMAIN packages = {"app", "lib"}
    /\ packages["app"] = <<app10>>
    /\ packages["lib"] \in {<<lib21, lib19>>, <<lib19, lib21>>}
    /\ installed = EmptyMap

C9_Scenario ==
    (ScenarioCatalog /\ resolved.called /\ resolved.requests = <<"app">>) =>
        resolved.result = Ok(<<lib21, app10>>)

C9_Witness ==
    /\ ScenarioCatalog /\ packages["lib"] = <<lib19, lib21>>
    /\ resolved.called /\ resolved.requests = <<"app">>
    /\ resolved.result = Ok(<<lib21, app10>>)

(* C10: no duplicate work.  No package name occurs twice in the output of a *)
(* successful resolve, whatever the request and the dependency graph.       *)
C10_NoDuplicateNames ==
    ResolvedOk =>
        \A i, j \in 1..Len(Output) : Output[i].name = Output[j].name => i = j

\* a request that repeats a name, resolved to a non-empty output
C10_Witness ==
    /\ ResolvedOk
    /\ Len(resolved.requests) = 2 /\ resolved.requests[1] = resolved.requests[2]
    /\ resolved.requests[1] \in OutputNames
    /\ Len(Output) >= 3

(* C11: idempotence.  A resolve call that follows a call with the same      *)
(* request, with no add_available or set_installed in between, returns what *)
(* that call returned: the same records in the same order, or the same      *)
(* error.                                                                   *)
C11_Idempotent ==
    (resolved.called /\ resolved.prev # None) => resolved.result = resolved.prev[1]

\* the repeated call returned three records or more, with packages installed
C11_Witness ==
    /\ resolved.called /\ resolved.prev # None
    /\ resolved.result.ok /\ Len(resolved.result.val) >= 3
    /\ resolved.prev[1] = resolved.result
    /\ installed # EmptyMap

(* C12: priority tie-break.  When two sources offer lib at the identical    *)
(* version string and no higher version is in the catalog, the best-version *)
(* lookup for lib returns the record of the source with the higher          *)
(* priority, whichever source was ingested first.                           *)
HigherPriority == CHOOSE s \in Sources : \A t \in Sources : t.repo.priority <= s.repo.priority

OfferedByAll(name) ==
    /\ name \in DOMAIN packages
    /\ \A s \in Sources : Range(s.packages) \subseteq Range(packages[name])
    /\ \A i \in 1..Len(packages[name]) : \A s \in Sources :
          compare_versions(packages[name][i].version, s.packages[1].version) # "Greater"

C12_PriorityTieBreak ==
    (/\ resolved.called /\ resolved.requests = <<"lib">>
     /\ "lib" \notin DOMAIN installed
     /\ OfferedByAll("lib")) =>
        resolved.result = Ok(<<HigherPriority.packages[1]>>)

(* C2: cycle termination.  A resolve call whose request reaches a          *)
(* dependency cycle, with every reached name installed or in the catalog,   *)
(* returns; it returns Ok; and the output holds every planned package, the  *)
(* members of the cycle among them.                                         *)
CycleCase(requests) == AllFound(requests) /\ HasCycle(PlannedRecords(requests))

C2_CycleTermination ==
    /\ (run.pc # "idle" /\ CycleCase(run.requests)) ~> (run.pc = "idle")
    /\ []((run.pc = "idle" /\ resolved.called /\ CycleCase(resolved.requests)) =>
            (resolved.result.ok /\ PlannedNames(resolved.requests) \subseteq OutputNames))

\* the call on the cycle a -> b -> c -> a has returned all three
C2_Witness ==
    /\ run.pc = "idle" /\ ResolvedOk /\ resolved.requests = <<"a">>
    /\ HasCycle(Range(Output))
    /\ OutputNames = {"a", "b", "c"}
    /\ installed = EmptyMap

(* C3: conflict rejection.  When the request reaches two catalog records    *)
(* R1 and R2 and R1 lists R2's name in its conflicts, resolve fails with    *)
(* ConflictError instead of returning a solution that holds both.           *)
ConflictReachable(requests) ==
    \E n1, n2 \in PlannedNames(requests) :
        n1 # n2 /\ n2 \in Range(Picked(n1).conflicts)

C3_ConflictRejected ==
    (resolved.called /\ AllFound(resolved.requests)
        /\ ConflictReachable(resolved.requests)) =>
        (~resolved.result.ok /\ resolved.result.err.kind = "ConflictError")

(* C7: version constraints.  In a successful resolve, a dependency that     *)
(* carries a version constraint and whose name is not installed is met by   *)
(* an output record whose version satisfies the constraint; and when no     *)
(* catalog version of that name satisfies it, resolve fails.                *)
ConstrainedDeps(rec) ==
    {rec.dependencies[k] : k \in {x \in 1..Len(rec.dependencies) :
        /\ rec.dependencies[x].version_constraint # None
        /\ rec.dependencies[x].name \notin DOMAIN installed}}

Unsatisfiable(dep) ==
    /\ dep.name \in DOMAIN packages
    /\ \A i \in 1..Len(packages[dep.name]) :
          ~version_satisfies(packages[dep.name][i].version, dep.version_constraint[1])

C7_ConstraintsHonoured ==
    /\ ResolvedOk =>
          \A i, j \in 1..Len(Output) : \A dep \in ConstrainedDeps(Output[i]) :
              Output[j].name = dep.name =>
                  version_satisfies(Output[j].version, dep.version_constraint[1])
    /\ (resolved.called /\ \E n \in PlannedNames(resolved.requests) :
                              \E dep \in ConstrainedDeps(Picked(n)) : Unsatisfiable(dep))
          => ~resolved.result.ok

(* C8: virtual packages.  A dependency name X that no record is named after *)
(* is satisfied when an installed or planned record lists X in its          *)
(* provides: resolve does not fail on X then.                               *)
ProvidedBy(x) ==
    {rec \in Range(solution) \cup {installed[n] : n \in DOMAIN installed} :
        x \in Range(rec.provides)}

C8_ProvidesSatisfy ==
    (resolved.called /\ ~resolved.result.ok
        /\ resolved.result.err.kind = "PackageNotFound"
        /\ resolved.result.err.name \notin Range(resolved.requests)) =>
        ProvidedBy(resolved.result.err.name) = {}

(* C21: dependency closure.  In the output of a successful resolve, every   *)
(* dependency name of every record is the name of an installed package or   *)
(* the name of a record of the output.                                      *)
C21_DependencyClosed ==
    ResolvedOk =>
        \A i \in 1..Len(Output) : \A d \in Range(DepNames(Output[i])) :
            d \in DOMAIN installed \/ d \in OutputNames

\* one record of the output has a dependency met by an installed package and
\* another met by a record of the output
C21_Witness ==
    /\ ResolvedOk
    /\ \E i \in 1..Len(Output) :
          /\ \E d \in Range(DepNames(Output[i])) : d \in DOMAIN installed
          /\ \E d \in Range(DepNames(Output[i])) :
                d \notin DOMAIN installed /\ d \in OutputNames

(* C22: installed names are skipped.  The output of a successful resolve    *)
(* holds no record whose name is installed, and the dependencies of an      *)
(* installed name are not expanded: the names of the output are exactly the *)
(* names reached from the request through records of names that are not     *)
(* installed.                                                               *)
C22_InstalledSkipped ==
    ResolvedOk =>
        /\ OutputNames \cap DOMAIN installed = {}
        /\ OutputNames = PlannedNames(resolved.requests)

\* a dependency of an output record is installed, and the installed record of
\* that name has a dependency that is neither installed nor in the output
C22_Witness ==
    /\ ResolvedOk
    /\ \E i \in 1..Len(Output) :
          \E n \in Range(DepNames(Output[i])) :
             /\ n \in DOMAIN installed
             /\ \E d \in Range(DepNames(installed[n])) :
                   d \notin DOMAIN installed /\ d \notin OutputNames

(* C23: unresolved names.  When a requested name, or a name reached through *)
(* dependencies, is neither installed nor in the catalog, resolve fails     *)
(* with PackageNotFound carrying such a name: a name that the request       *)
(* reaches and that is neither installed nor in the catalog.                *)
Unresolved(requests) ==
    {n \in Reachable(requests) : n \notin DOMAIN installed /\ n \notin DOMAIN packages}

C23_UnresolvedNameReported ==
    (resolved.called /\ Unresolved(resolved.requests) # {}) =>
        /\ ~resolved.result.ok
        /\ resolved.result.err.kind = "PackageNotFound"
        /\ resolved.result.err.name \in Unresolved(resolved.requests)

\* the unresolved name is not in the request: it was reached through the
\* dependency of a record
C23_Witness ==
    /\ resolved.called /\ ~resolved.result.ok
    /\ resolved.result.err.name \in Unresolved(resolved.requests)
    /\ resolved.result.err.name \notin Range(resolved.requests)
    /\ installed # EmptyMap

(* C28: the ordering pass keeps the planned set.  The output of a           *)
(* successful resolve is a permutation of the list the worklist collected:  *)
(* every record the same number of times, whether or not the records have a *)
(* dependency cycle.                                                        *)
Count(s, x) == Cardinality({i \in 1..Len(s) : s[i] = x})
IsPermutation(s, t) ==
    /\ Len(s) = Len(t)
    /\ \A x \in Range(s) \cup Range(t) : Count(s, x) = Count(t, x)

\* what the worklist loop of the last call collected, in the order it pushed
Collected == WorkLoop(WorkStart(resolved.requests), packages, installed).solution

C28_SortIsPermutation == ResolvedOk => IsPermutation(Output, Collected)

\* the deadlock break has run: three records on a cycle, in the output in an
\* order that is not the one the worklist pushed them in
C28_Witness ==
    /\ ResolvedOk /\ Len(Output) >= 3
    /\ HasCycle(Range(Output))
    /\ Output # Collected
    /\ IsPermutation(Output, Collected)

(* C29: no state carried between calls.  What a resolve call returns is     *)
(* what a new Resolver with the same catalog and the same installed set     *)
(* returns for the request, whatever an earlier call on the Resolver, a     *)
(* successful or a failed one, left in self.solution.                       *)
\* resolve on a new Resolver: self.solution is the empty Vec of Resolver::new
FreshResult(requests) ==
    LET w == WorkLoop([to_install |-> requests, seen |-> {}, solution |-> <<>>,
                       err |-> NoError], packages, installed)
    IN  IF w.err # NoError THEN Err(w.err)
        ELSE Ok(topological_sort(w.solution, installed))

C29_NoCarryOver == resolved.called => resolved.result = FreshResult(resolved.requests)

\* the call before had another request and failed after it had pushed records;
\* this call returns records
C29_Witness ==
    /\ ResolvedOk /\ Output # <<>>
    /\ resolved.earlier.failed /\ resolved.earlier.leftover
    /\ resolved.prev = None
    /\ resolved.result = FreshResult(resolved.requests)

---------------------------------------------------------------------------
(* PackageDatabase and RpmNext (main.rs)                                   *)
(* A database value is [packages, files].                                  *)

RECURSIVE InsertFiles(_, _, _)
InsertFiles(files, list, owner) ==
    IF list = <<>> THEN files
    ELSE InsertFiles(MapInsert(files, Head(list), owner), Tail(list), owner)

RECURSIVE RemoveFiles(_, _)
RemoveFiles(files, list) ==
    IF list = <<>> THEN files
    ELSE RemoveFiles(MapRemove(files, Head(list)), Tail(list))

is_installed(db, name) == name \in DOMAIN db.packages

register(db, pkg) ==
    [packages |-> MapInsert(db.packages, pkg.name, pkg),
     files |-> InsertFiles(db.files, pkg.files, pkg.name)]

\* [db, ret]: the database afterwards and the Option<PackageInfo> returned
unregister(db, name) ==
    IF name \in DOMAIN db.packages
    THEN [db |-> [packages |-> MapRemove(db.packages, name),
                  files |-> RemoveFiles(db.files, db.packages[name].files)],
          ret |-> Some(db.packages[name])]
    ELSE [db |-> db, ret |-> None]

Transaction(inst, rem, upg) ==
    [install |-> inst, remove |-> rem, upgrade |-> upg, download_size |-> 0, size_change |-> 0]

\* "TODO: Check reverse dependencies": returns Ok(()) whatever the transaction is
check_remove_deps(db, tx) == Ok(<<>>)

\* An execution state is [db, log, err]: the database, the steps performed so far
\* and the error of the step that failed (NoError while none has).
ExecStart(db) == [db |-> db, log |-> <<>>, err |-> NoError]

download_package(es, pkg) ==
    [es EXCEPT !.log = Append(es.log, <<"download", pkg.name>>)]

\* unregister, then delete the files under the root (errors ignored); always Ok
remove_package(es, name) ==
    [es EXCEPT !.db = unregister(es.db, name).db,
               !.log = Append(es.log, <<"remove", name>>)]

\* The first definition is a variant that registers the package before it looks
\* at the format.
install_package_register_first(es, pkg) ==
    IF pkg.format \in {"Native", "Deb", "Rpm"}
    THEN [es EXCEPT !.db = register(es.db, pkg),
                    !.log = Append(es.log, <<"install", pkg.name>>)]
    ELSE [es EXCEPT !.db = register(es.db, pkg),
                    !.err = PkgError("UnsupportedFormat", "")]

install_package(es, pkg) ==
    IF pkg.format \in {"Native", "Deb", "Rpm"}
    THEN [es EXCEPT !.db = register(es.db, pkg),
                    !.log = Append(es.log, <<"install", pkg.name>>)]
    ELSE [es EXCEPT !.err = PkgError("UnsupportedFormat", "")]

RECURSIVE DownloadAll(_, _)
DownloadAll(es, pkgs) ==
    IF pkgs = <<>> \/ es.err # NoError THEN es
    ELSE DownloadAll(download_package(es, Head(pkgs)), Tail(pkgs))

RECURSIVE RemoveAll(_, _)
RemoveAll(es, names) ==
    IF names = <<>> \/ es.err # NoError THEN es
    ELSE RemoveAll(remove_package(es, Head(names)), Tail(names))

RECURSIVE InstallAll(_, _)
InstallAll(es, pkgs) ==
    IF pkgs = <<>> \/ es.err # NoError THEN es
    ELSE InstallAll(install_package(es, Head(pkgs)), Tail(pkgs))

RECURSIVE UpgradeAll(_, _)
UpgradeAll(es, pairs) ==
    IF pairs = <<>> \/ es.err # NoError THEN es
    ELSE UpgradeAll(install_package(remove_package(es, Head(pairs)[1].name), Head(pairs)[2]),
                    Tail(pairs))

\* downloads, removals, installs, upgrades, then save (which returns Ok(()))
\* The first definition is a variant that installs before it removes.
execute_transaction_install_first(db, tx) ==
    UpgradeAll(RemoveAll(InstallAll(DownloadAll(ExecStart(db), tx.install), tx.install),
                         tx.remove),
               tx.upgrade)

execute_transaction(db, tx) ==
    UpgradeAll(InstallAll(RemoveAll(DownloadAll(ExecStart(db), tx.install), tx.remove),
                          tx.install),
               tx.upgrade)

\* the loop of RpmNext::remove: the names collected, or the first name not installed
RECURSIVE CollectRemovals(_, _, _)
CollectRemovals(db, names, acc) ==
    IF names = <<>> THEN Ok(acc)
    ELSE IF is_installed(db, Head(names)) THEN CollectRemovals(db, Tail(names), Append(acc, Head(names)))
    ELSE Err(PkgError("NotInstalled", Head(names)))

\* What install, remove and upgrade hand back is [db, result, log]: the database
\* afterwards, the Result returned and the steps execute_transaction performed.
\* Rejected is a return before execute_transaction is reached.
Rejected(db, err) == [db |-> db, result |-> Err(err), log |-> <<>>]

\* `self.execute_transaction(&transaction)?; Ok(transaction)`
ExecuteAndReturn(db, tx) ==
    LET es == execute_transaction(db, tx)
    IN  [db |-> es.db,
         result |-> IF es.err # NoError THEN Err(es.err) ELSE Ok(tx),
         log |-> es.log]

\* RpmNext::remove as a whole
\* The first two definitions are a variant that removes each name as soon as it
\* has found it installed, instead of checking all the names first.
RECURSIVE RemoveWhileInstalled(_, _)
RemoveWhileInstalled(es, names) ==
    IF names = <<>> THEN es
    ELSE IF is_installed(es.db, Head(names))
         THEN RemoveWhileInstalled(remove_package(es, Head(names)), Tail(names))
         ELSE [es EXCEPT !.err = PkgError("NotInstalled", Head(names))]

\* A further variant lists every removed package as an upgrade of itself as well.
remove_listing_upgrades(db, names) ==
    LET collected == CollectRemovals(db, names, <<>>)
    IN  IF ~collected.ok THEN Rejected(db, collected.err)
        ELSE ExecuteAndReturn(db,
                 [install |-> <<>>, remove |-> collected.val,
                  upgrade |-> [i \in 1..Len(collected.val) |->
                                  <<db.packages[collected.val[i]], db.packages[collected.val[i]]>>],
                  download_size |-> 0, size_change |-> 0])

remove_eager(db, names) ==
    LET es == RemoveWhileInstalled(ExecStart(db), names)
    IN  [db |-> es.db,
         result |-> IF es.err # NoError THEN Err(es.err)
                    ELSE Ok(Transaction(<<>>, names, <<>>)),
         log |-> es.log]

remove(db, names) ==
    LET collected == CollectRemovals(db, names, <<>>)
    IN  IF ~collected.ok THEN Rejected(db, collected.err)
        ELSE LET tx == Transaction(<<>>, collected.val, <<>>)
                 checked == check_remove_deps(db, tx)
             IN  IF ~checked.ok THEN Rejected(db, checked.err)
                 ELSE ExecuteAndReturn(db, tx)

\* "TODO: Search all enabled repositories": Ok(None) whatever the name is
find_package(name) == Ok(None)

\* The body of the loop of RpmNext::install for one name, given the Option that
\* find_package returned for it: `transaction.install.push(pkg)`, or the error
\* that names the name.  Nothing else of the transaction is assigned.
InstallCandidate(tx, name, found) ==
    IF found = None THEN Err(PkgError("PackageNotFound", name))
    ELSE Ok([tx EXCEPT !.install = Append(tx.install, found[1])])

\* the loop of RpmNext::install: the transaction with the records found, or the
\* error of the first name without one
RECURSIVE CollectInstalls(_, _)
CollectInstalls(names, tx) ==
    IF names = <<>> THEN Ok(tx)
    ELSE LET found == find_package(Head(names))
         IN  IF ~found.ok THEN Err(found.err)
             ELSE LET pushed == InstallCandidate(tx, Head(names), found.val)
                  IN  IF ~pushed.ok THEN pushed
                      ELSE CollectInstalls(Tail(names), pushed.val)

\* RpmNext::install as a whole
install(db, names) ==
    LET collected == CollectInstalls(names, Transaction(<<>>, <<>>, <<>>))
    IN  IF ~collected.ok THEN Rejected(db, collected.err)
        ELSE ExecuteAndReturn(db, collected.val)

\* The body of `if let Some(old) = self.database.get(name)` in RpmNext::upgrade,
\* given the Option that find_package returned for the name: the pair is pushed
\* when there is a candidate and version_compare(new, old) > 0.
\* The first definition is a variant without the version comparison.
UpgradeCandidate_unguarded(tx, old, found) ==
    IF found # None
    THEN [tx EXCEPT !.upgrade = Append(tx.upgrade, <<old, found[1]>>)]
    ELSE tx

UpgradeCandidate(tx, old, found) ==
    IF found # None /\ version_compare(found[1].version, old.version) > 0
    THEN [tx EXCEPT !.upgrade = Append(tx.upgrade, <<old, found[1]>>)]
    ELSE tx

\* the loop of RpmNext::upgrade over the names: the transaction, or the error of
\* find_package
RECURSIVE CollectUpgrades(_, _, _)
CollectUpgrades(db, names, tx) ==
    IF names = <<>> THEN Ok(tx)
    ELSE IF Head(names) \notin DOMAIN db.packages THEN CollectUpgrades(db, Tail(names), tx)
    ELSE LET found == find_package(Head(names))
         IN  IF ~found.ok THEN Err(found.err)
             ELSE CollectUpgrades(db, Tail(names),
                                  UpgradeCandidate(tx, db.packages[Head(names)], found.val))

\* BTreeMap order of the names of this model
NameOrder == <<"w", "x", "y", "z">>

\* self.database.list().map(|p| p.name): the installed names in key order
ListNames(db) == SelectSeq(NameOrder, LAMBDA n : n \in DOMAIN db.packages)

\* RpmNext::upgrade as a whole; an empty request upgrades every installed package
upgrade(db, names) ==
    LET collected == CollectUpgrades(db, IF names = <<>> THEN ListNames(db) ELSE names,
                                     Transaction(<<>>, <<>>, <<>>))
    IN  IF ~collected.ok THEN Rejected(db, collected.err)
        ELSE ExecuteAndReturn(db, collected.val)

---------------------------------------------------------------------------
(* Inputs of the database: the records registered and the names removed     *)

\* x 1.0 and x 2.0 own different paths; y shares a path with x 1.0;
\* z depends on x and owns nothing
x10 == PackageInfo("x", V10, "Native", 1, <<>>, <<>>, <<>>, <<"f1">>)
x20 == PackageInfo("x", V20, "Native", 1, <<>>, <<>>, <<>>, <<"f2">>)
y10 == PackageInfo("y", V10, "Deb", 1, <<>>, <<>>, <<>>, <<"f1", "f3">>)
z10 == PackageInfo("z", V10, "Rpm", 1, <<Dep("x")>>, <<>>, <<>>, <<>>)

DbRecords == {x10, x20, y10, z10}
DbNames == {"x", "y", "z"}
RemoveRequests ==
    { <<>>, <<"x">>, <<"y">>, <<"z">>, <<"x", "y">>, <<"y", "x">>, <<"z", "x">> }

---------------------------------------------------------------------------
(* The database and RpmNext as a state machine                             *)

Db == [packages |-> dbPackages, files |-> dbFiles]

\* a call, the ledger it started from, what it returned and the steps that
\* execute_transaction performed inside it
CalledTx(op, names, result, tx, log) ==
    [op |-> op, names |-> names, beforePackages |-> dbPackages,
     beforeFiles |-> dbFiles, result |-> result, tx |-> tx, log |-> log]

Called(op, names, result) ==
    CalledTx(op, names, result, Transaction(<<>>, <<>>, <<>>), <<>>)

Register(pkg) ==
    /\ dbPackages' = register(Db, pkg).packages
    /\ dbFiles' = register(Db, pkg).files
    /\ lastOp' = Called("register", <<pkg.name>>, Ok(<<>>))
    /\ UNCHANGED <<resolverVars, pureVars, cacheVars>>

Unregister(name) ==
    /\ \E r \in {unregister(Db, name)} :
           /\ dbPackages' = r.db.packages
           /\ dbFiles' = r.db.files
           /\ lastOp' = Called("unregister", <<name>>, Ok(r.ret))
    /\ UNCHANGED <<resolverVars, pureVars, cacheVars>>

Remove(names) ==
    /\ \E r \in {remove(Db, names)} :
           /\ dbPackages' = r.db.packages
           /\ dbFiles' = r.db.files
           /\ lastOp' = CalledTx("remove", names, r.result,
                               IF r.result.ok THEN r.result.val
                               ELSE Transaction(<<>>, <<>>, <<>>), r.log)
    /\ UNCHANGED <<resolverVars, pureVars, cacheVars>>

NextDb ==
    \/ \E pkg \in DbRecords : Register(pkg)
    \/ \E name \in DbNames : Unregister(name)
    \/ \E names \in RemoveRequests : Remove(names)

SpecDb == Init /\ [][NextDb]_vars

---------------------------------------------------------------------------
(* C4: removal safety.  Removing installed packages fails with a dependency *)
(* error and leaves the ledger as it was when an installed package that is  *)
(* not removed in the same request depends on one of the removed names.     *)
BreaksDependent(before, names) ==
    \E y \in DOMAIN before \ Range(names) :
        \E x \in Range(names) : x \in Range(DepNames(before[y]))

C4_RemovalSafety ==
    (/\ lastOp.op = "remove"
     /\ Range(lastOp.names) \subseteq DOMAIN lastOp.beforePackages
     /\ BreaksDependent(lastOp.beforePackages, lastOp.names)) =>
        /\ ~lastOp.result.ok
        /\ lastOp.result.err.kind = "DependencyError"
        /\ dbPackages = lastOp.beforePackages
        /\ dbFiles = lastOp.beforeFiles

(* C5: file ownership.  Every path in the file list of an installed package *)
(* is in the file-ownership map and maps to that package's name.            *)
C5_FilesOwned ==
    \A n \in DOMAIN dbPackages : \A f \in Range(dbPackages[n].files) :
        f \in DOMAIN dbFiles /\ dbFiles[f] = n

(* C6: atomic removal.  Right after unregister(name) the package is absent  *)
(* from the ledger and no path of the file-ownership map maps to name.      *)
C6_UnregisterClears ==
    lastOp.op = "unregister" =>
        /\ lastOp.names[1] \notin DOMAIN dbPackages
        /\ \A f \in DOMAIN dbFiles : dbFiles[f] # lastOp.names[1]

(* C26: no stale ownership entry.  Every path in the file-ownership map     *)
(* maps to the name of an installed package whose file list contains the    *)
(* path.                                                                    *)
C26_NoStaleOwner ==
    \A f \in DOMAIN dbFiles :
        /\ dbFiles[f] \in DOMAIN dbPackages
        /\ f \in Range(dbPackages[dbFiles[f]].files)

(* C27: unregister leaves other packages alone.  Right after                *)
(* unregister(name) every other package that was installed is installed     *)
(* with the same record, and every path that another package owned has the  *)
(* same owner.                                                              *)
C27_UnregisterFrame ==
    lastOp.op = "unregister" =>
        /\ \A n \in DOMAIN lastOp.beforePackages \ {lastOp.names[1]} :
              n \in DOMAIN dbPackages /\ dbPackages[n] = lastOp.beforePackages[n]
        /\ \A f \in DOMAIN lastOp.beforeFiles :
              lastOp.beforeFiles[f] # lastOp.names[1] =>
                  f \in DOMAIN dbFiles /\ dbFiles[f] = lastOp.beforeFiles[f]

---------------------------------------------------------------------------
(* RpmNext::install and RpmNext::upgrade as actions                        *)

InstallRequests == { <<>>, <<"x">>, <<"y", "x">>, <<"w">> }
UpgradeRequests == { <<>>, <<"x">>, <<"z", "x">>, <<"w">> }

TxOf(r) == IF r.result.ok THEN r.result.val ELSE Transaction(<<>>, <<>>, <<>>)

Install(names) ==
    /\ \E r \in {install(Db, names)} :
           /\ dbPackages' = r.db.packages
           /\ dbFiles' = r.db.files
           /\ lastOp' = CalledTx("install", names, r.result, TxOf(r), r.log)
    /\ UNCHANGED <<resolverVars, pureVars, cacheVars>>

Upgrade(names) ==
    /\ \E r \in {upgrade(Db, names)} :
           /\ dbPackages' = r.db.packages
           /\ dbFiles' = r.db.files
           /\ lastOp' = CalledTx("upgrade", names, r.result, TxOf(r), r.log)
    /\ UNCHANGED <<resolverVars, pureVars, cacheVars>>

\* w is in a format install_package does not support
w10 == PackageInfo("w", V10, "Apk", 1, <<>>, <<>>, <<>>, <<"f4">>)

\* transactions handed to execute_transaction: all three lists filled; an
\* unsupported record in the middle of the install list; an upgrade to an
\* unsupported record; a name that is removed and installed; the empty one
TxInputs ==
    { Transaction(<<y10>>, <<"x">>, <<<<z10, z10>>>>),
      Transaction(<<x10, z10>>, <<"y", "x">>, <<<<x10, x20>>>>),
      Transaction(<<y10, w10, z10>>, <<"x">>, <<<<x10, x20>>>>),
      Transaction(<<z10>>, <<"y">>, <<<<x10, w10>>, <<z10, z10>>>>),
      Transaction(<<>>, <<>>, <<>>) }

\* execute_transaction on a transaction of any content
ExecuteTransaction(tx) ==
    /\ \E es \in {execute_transaction(Db, tx)} :
           /\ dbPackages' = es.db.packages
           /\ dbFiles' = es.db.files
           /\ lastOp' = CalledTx("execute", <<>>,
                                 IF es.err # NoError THEN Err(es.err) ELSE Ok(<<>>),
                                 tx, es.log)
    /\ UNCHANGED <<resolverVars, pureVars, cacheVars>>

NextTx ==
    \/ \E pkg \in DbRecords : Register(pkg)
    \/ \E names \in InstallRequests : Install(names)
    \/ \E names \in RemoveRequests : Remove(names)
    \/ \E names \in UpgradeRequests : Upgrade(names)
    \/ \E tx \in TxInputs : ExecuteTransaction(tx)

SpecTx == Init /\ [][NextTx]_vars

\* the steps a transaction asks for, in the order of the four phases
StepsOf(tx) ==
    [i \in 1..Len(tx.install) |->
        [kind |-> "download", name |-> tx.install[i].name, pkg |-> tx.install[i]]]
    \o [i \in 1..Len(tx.remove) |->
        [kind |-> "remove", name |-> tx.remove[i], pkg |-> None]]
    \o [i \in 1..Len(tx.install) |->
        [kind |-> "install", name |-> tx.install[i].name, pkg |-> tx.install[i]]]
    \o [k \in 1..(2 * Len(tx.upgrade)) |->
        IF k % 2 = 1
        THEN [kind |-> "remove", name |-> tx.upgrade[(k + 1) \div 2][1].name, pkg |-> None]
        ELSE [kind |-> "install", name |-> tx.upgrade[k \div 2][2].name,
              pkg |-> tx.upgrade[k \div 2][2]]]

LogOf(steps) == [i \in 1..Len(steps) |-> <<steps[i].kind, steps[i].name>>]

(* C18: order of execution.  The steps execute_transaction performs are the *)
(* downloads of the install list, then the removals, then the installs,     *)
(* then for each upgrade pair the removal of the old and the install of the *)
(* new package, in this order and up to the step that fails.                *)
C18_ExecutionOrder ==
    lastOp.op = "execute" =>
        /\ Len(lastOp.log) <= Len(StepsOf(lastOp.tx))
        /\ lastOp.log = SubSeq(LogOf(StepsOf(lastOp.tx)), 1, Len(lastOp.log))
        /\ lastOp.result.ok => Len(lastOp.log) = Len(StepsOf(lastOp.tx))

\* a transaction with all three lists filled was executed to the end
C18_Witness ==
    /\ lastOp.op = "execute" /\ lastOp.result.ok
    /\ lastOp.tx = Transaction(<<x10, z10>>, <<"y", "x">>, <<<<x10, x20>>>>)
    /\ lastOp.log = << <<"download", "x">>, <<"download", "z">>, <<"remove", "y">>,
                       <<"remove", "x">>, <<"install", "x">>, <<"install", "z">>,
                       <<"remove", "x">>, <<"install", "x">> >>
    /\ "y" \in DOMAIN lastOp.beforePackages

(* C19: one list per name.  In a transaction returned by install, remove or *)
(* upgrade no package name is in two of: the install list, the remove list, *)
(* the old side of the upgrade list.                                        *)
InstallNames(tx) == {tx.install[i].name : i \in 1..Len(tx.install)}
RemoveNames(tx) == Range(tx.remove)
UpgradeOldNames(tx) == {tx.upgrade[i][1].name : i \in 1..Len(tx.upgrade)}

C19_ListsDisjoint ==
    (lastOp.op \in {"install", "remove", "upgrade"} /\ lastOp.result.ok) =>
        /\ InstallNames(lastOp.result.val) \cap RemoveNames(lastOp.result.val) = {}
        /\ InstallNames(lastOp.result.val) \cap UpgradeOldNames(lastOp.result.val) = {}
        /\ RemoveNames(lastOp.result.val) \cap UpgradeOldNames(lastOp.result.val) = {}

\* remove returned a transaction that removes two packages
C19_Witness ==
    /\ lastOp.op = "remove" /\ lastOp.result.ok
    /\ RemoveNames(lastOp.result.val) = {"x", "y"}
    /\ InstallNames(lastOp.result.val) = {} /\ UpgradeOldNames(lastOp.result.val) = {}

(* C20: the ledger after a failure.  When execute_transaction fails, the    *)
(* ledger is the ledger before the call with the steps that completed       *)
(* applied in order, a removal unregistering and an install registering;    *)
(* the failing step and the steps after it have left nothing.               *)
RECURSIVE Replay(_, _, _)
Replay(db, steps, n) ==
    IF n = 0 THEN db
    ELSE LET before == Replay(db, steps, n - 1)
         IN  CASE steps[n].kind = "download" -> before
               [] steps[n].kind = "remove" -> unregister(before, steps[n].name).db
               [] steps[n].kind = "install" -> register(before, steps[n].pkg)

C20_LedgerAfterFailure ==
    (lastOp.op = "execute" /\ ~lastOp.result.ok) =>
        /\ Len(lastOp.log) < Len(StepsOf(lastOp.tx))
        /\ Db = Replay([packages |-> lastOp.beforePackages, files |-> lastOp.beforeFiles],
                       StepsOf(lastOp.tx), Len(lastOp.log))
        /\ LET failed == StepsOf(lastOp.tx)[Len(lastOp.log) + 1]
           IN  /\ failed.kind = "install"
               /\ failed.name \in DOMAIN dbPackages => dbPackages[failed.name] # failed.pkg
               /\ \A f \in Range(failed.pkg.files) : f \notin DOMAIN dbFiles

\* the install of w failed after x was removed and y installed; z, which comes
\* after w in the install list, is not installed
C20_Witness ==
    /\ lastOp.op = "execute" /\ lastOp.result = Err(PkgError("UnsupportedFormat", ""))
    /\ lastOp.tx = Transaction(<<y10, w10, z10>>, <<"x">>, <<<<x10, x20>>>>)
    /\ "x" \in DOMAIN lastOp.beforePackages
    /\ DOMAIN dbPackages = {"y"}

---------------------------------------------------------------------------
(* Failing calls: the resolver on small catalogs next to RpmNext::install   *)
(* on small ledgers                                                         *)

FailBatches == { <<app10, lib21, lib19>>, <<lib30, c20>>, <<c21>> }
FailRecords == {x10, y10}

NextFail ==
    \/ \E batch \in FailBatches : AddAvailable(batch)
    \/ \E requests \in Requests : Resolve(requests)
    \/ \E pkg \in FailRecords : Register(pkg)
    \/ \E names \in InstallRequests : Install(names)

SpecFail == Init /\ [][NextFail]_vars

(* C17: no partial result.  A resolve call that fails returns the error and *)
(* no package list; an install call with a requested name that cannot be    *)
(* found fails with PackageNotFound for the first such name, performs no    *)
(* download, removal or install step and leaves the ledger as it was.       *)
NotFoundAt(i) == find_package(lastOp.names[i]) = Ok(None)

MissingAt(i) == lastOp.names[i] \notin DOMAIN lastOp.beforePackages

C16_NotInstalled ==
    (lastOp.op = "remove" /\ \E i \in 1..Len(lastOp.names) : MissingAt(i)) =>
        /\ \E i \in 1..Len(lastOp.names) :
              /\ MissingAt(i) /\ \A j \in 1..(i - 1) : ~MissingAt(j)
              /\ lastOp.result = Err(PkgError("NotInstalled", lastOp.names[i]))
        /\ lastOp.log = <<>>
        /\ dbPackages = lastOp.beforePackages
        /\ dbFiles = lastOp.beforeFiles

\* x installed and named first, y not installed and named second
C16_Witness ==
    /\ lastOp.op = "remove" /\ lastOp.names = <<"x", "y">>
    /\ "x" \in DOMAIN lastOp.beforePackages /\ "y" \notin DOMAIN lastOp.beforePackages
    /\ lastOp.result = Err(PkgError("NotInstalled", "y"))
    /\ "x" \in DOMAIN dbPackages

---------------------------------------------------------------------------
(* The functions that read no state, applied to version strings            *)

\* "1" < "1.0" < "1.1" < "1.9" < "1.10" < "2.0" < "2.1"; "01.0" parses like "1.0";
\* "" and "+" parse to no component; "1..0" has an empty piece; "1-0.5" and
\* "1.+2" have pieces that split('.') and split(non-digit) cut differently
V1 == <<"1">>
V11 == <<"1", ".", "1">>
V110 == <<"1", ".", "1", "0">>
V010 == <<"0", "1", ".", "0">>
VEmpty == <<>>
VPlus == <<"+">>
V1dd0 == <<"1", ".", ".", "0">>
V1m05 == <<"1", "-", "0", ".", "5">>
V1p2 == <<"1", ".", "+", "2">>
V10m1 == <<"1", ".", "0", "-", "1">>
V10m2 == <<"1", ".", "0", "-", "2">>

VersionStrings ==
    {V1, V10, V11, V19, V110, V20, V21, V010, VEmpty, VPlus, V1dd0, V1m05, V1p2,
     V10m1, V10m2}

ConstraintOps == {"Eq", "Lt", "Le", "Gt", "Ge"}

Applied(op, args, result) == [op |-> op, args |-> args, result |-> result]

\* Each behaviour applies one function to one choice of arguments: the functions
\* read nothing that an earlier application could have changed.
\* compare_versions on the pairs of three version strings
CompareVersions(a, b, c) ==
    /\ call = NoApplication
    /\ call' = Applied("compare_versions", <<a, b, c>>,
                       [ab |-> compare_versions(a, b), ba |-> compare_versions(b, a),
                        bc |-> compare_versions(b, c), ac |-> compare_versions(a, c)])
    /\ UNCHANGED <<resolverVars, dbVars, cacheVars>>

VersionSatisfies(version, constraint) ==
    /\ call = NoApplication
    /\ call' = Applied("version_satisfies", <<version, constraint>>,
                       version_satisfies(version, constraint))
    /\ UNCHANGED <<resolverVars, dbVars, cacheVars>>

\* the installed record and the candidate of an upgrade: x at any two versions
Candidate(v) == PackageInfo("x", v, "Native", 1, <<>>, <<>>, <<>>, <<>>)

\* the body of the upgrade loop for an installed record `old`, when the lookup of
\* its name has returned the candidate `new`
SelectUpgrade(old, new) ==
    /\ call = NoApplication
    /\ call' = Applied("upgrade_candidate", <<old, new>>,
                       UpgradeCandidate(Transaction(<<>>, <<>>, <<>>), old, Some(new)))
    /\ UNCHANGED <<resolverVars, dbVars, cacheVars>>

\* the records a lookup returns to the install loop: sizes 1, 1 and 2
FoundRecords == {x10, y10, lib21deb}

\* the loop of RpmNext::install over two names, when the lookups have returned
\* the records `first` and `second`
SelectInstall(first, second) ==
    /\ call = NoApplication
    /\ \E one \in {InstallCandidate(Transaction(<<>>, <<>>, <<>>), first.name, Some(first))} :
       \E two \in {InstallCandidate(one.val, second.name, Some(second))} :
           call' = Applied("install_candidate", <<first, second>>, two.val)
    /\ UNCHANGED <<resolverVars, dbVars, cacheVars>>

\* the two comparators on the same pair of version strings
CompareBoth(a, b) ==
    /\ call = NoApplication
    /\ call' = Applied("compare_both", <<a, b>>,
                       [resolver |-> compare_versions(a, b),
                        upgrade |-> version_compare(a, b)])
    /\ UNCHANGED <<resolverVars, dbVars, cacheVars>>

NextVersions ==
    \/ \E a, b, c \in VersionStrings : CompareVersions(a, b, c)
    \/ \E v, c \in VersionStrings : \E op \in ConstraintOps :
           VersionSatisfies(v, [operator |-> op, version |-> c])
    \/ \E vo, vn \in VersionStrings : SelectUpgrade(Candidate(vo), Candidate(vn))
    \/ \E first, second \in FoundRecords : SelectInstall(first, second)
    \/ \E a, b \in VersionStrings : CompareBoth(a, b)

SpecVersions == Init /\ [][NextVersions]_vars

---------------------------------------------------------------------------
(* C13: upgrade monotonicity.  A pair (old, new) that the upgrade loop puts *)
(* in the transaction has new.version strictly greater than old.version     *)
(* under version_compare; a candidate that compares equal or older is not   *)
(* added.                                                                   *)
C13_UpgradeMonotone ==
    call.op = "upgrade_candidate" =>
        LET old == call.args[1]
            new == call.args[2]
            pairs == call.result.upgrade
        IN  /\ \A i \in 1..Len(pairs) :
                  /\ version_compare(pairs[i][2].version, pairs[i][1].version) > 0
                  /\ version_compare(pairs[i][1].version, pairs[i][2].version) < 0
            /\ version_compare(new.version, old.version) <= 0 => pairs = <<>>

\* 1.9 installed, candidate 1.10: the pair was added
C13_Witness ==
    /\ call.op = "upgrade_candidate"
    /\ call.args[1].version = V19 /\ call.args[2].version = V110
    /\ call.result.upgrade = <<<<call.args[1], call.args[2]>>>>

(* C14: the comparator is a total preorder.  For version strings a, b, c:   *)
(* compare(a, b) is one of Less, Equal, Greater and compare(b, a) is its    *)
(* reverse; and when neither compare(a, b) nor compare(b, c) is Greater,    *)
(* compare(a, c) is not Greater.                                            *)
Reverse(ord) == CASE ord = "Less" -> "Greater" [] ord = "Equal" -> "Equal" [] ord = "Greater" -> "Less"

C14_TotalPreorder ==
    call.op = "compare_versions" =>
        /\ call.result.ab \in {"Less", "Equal", "Greater"}
        /\ call.result.ba = Reverse(call.result.ab)
        /\ (call.result.ab # "Greater" /\ call.result.bc # "Greater") =>
               call.result.ac # "Greater"

\* "1" < "1.0" < "1.1": a chain of strict steps decided by length, then by value
C14_Witness ==
    /\ call.op = "compare_versions"
    /\ call.args = <<V1, V10, V11>>
    /\ call.result.ab = "Less" /\ call.result.bc = "Less" /\ call.result.ac = "Less"

(* C15: constraint satisfaction agrees with the ordering.  For a version v  *)
(* and a constraint (op, c), version_satisfies is TRUE exactly when op      *)
(* holds of compare_versions(v, c): = of Equal, < of Less, <= of Less or    *)
(* Equal, > of Greater, >= of Greater or Equal.                             *)
OpHolds(op, ord) ==
    \/ op = "Eq" /\ ord = "Equal"
    \/ op = "Lt" /\ ord = "Less"
    \/ op = "Le" /\ ord \in {"Less", "Equal"}
    \/ op = "Gt" /\ ord = "Greater"
    \/ op = "Ge" /\ ord \in {"Greater", "Equal"}

C15_SatisfiesAgrees ==
    call.op = "version_satisfies" =>
        (call.result <=> OpHolds(call.args[2].operator,
                                 compare_versions(call.args[1], call.args[2].version)))

\* "01.0" <= "1.0" holds although the strings differ
C15_Witness ==
    /\ call.op = "version_satisfies"
    /\ call.args = <<V010, [operator |-> "Le", version |-> V10]>>
    /\ call.result = TRUE

(* C24: download total.  In the transaction the install loop builds,       *)
(* download_size equals the sum of the size fields of the records of the    *)
(* install list.                                                            *)
RECURSIVE SumSizes(_)
SumSizes(pkgs) == IF pkgs = <<>> THEN 0 ELSE Head(pkgs).size + SumSizes(Tail(pkgs))

C30_ComparatorsAgree ==
    call.op = "compare_both" => call.result.upgrade = OrderingAsI32(call.result.resolver)

---------------------------------------------------------------------------
(* RepositoryCache (repository.rs)                                         *)

\* the index RepositoryCache::sync builds: the repository's configuration, no
\* packages (the download and the parsing are not written), last_sync 0
BuildIndex(repo) == RepositoryIndex(repo, <<>>)

\* RepositoryCache::sync: [repos, ret].  A format without an index URL returns the
\* error before anything is inserted.
\* The first definition is a variant that keeps the index a name already has.
sync_keep_existing(cache, repo) ==
    IF repo.format \notin {"Deb", "Rpm", "Native"}
    THEN [repos |-> cache, ret |-> Err(PkgError("UnsupportedFormat", ""))]
    ELSE [repos |-> IF repo.name \in DOMAIN cache THEN cache
                    ELSE MapInsert(cache, repo.name, BuildIndex(repo)),
          ret |-> Ok(<<>>)]

sync(cache, repo) ==
    IF repo.format \notin {"Deb", "Rpm", "Native"}
    THEN [repos |-> cache, ret |-> Err(PkgError("UnsupportedFormat", ""))]
    ELSE [repos |-> MapInsert(cache, repo.name, BuildIndex(repo)), ret |-> Ok(<<>>)]

\* RepositoryCache::sync_all: sync of every enabled repository in order, left at
\* the first error.  st = [repos, log, ret]; log is the sync calls made.
RECURSIVE sync_all(_, _)
sync_all(st, list) ==
    IF list = <<>> \/ ~st.ret.ok THEN st
    ELSE LET repo == Head(list)
         IN  IF ~repo.enabled THEN sync_all(st, Tail(list))
             ELSE LET r == sync(st.repos, repo)
                  IN  sync_all([repos |-> r.repos,
                                log |-> Append(st.log, [repo |-> repo, ok |-> r.ret.ok]),
                                ret |-> r.ret],
                               Tail(list))

MaxSyncs == 3       \* sync calls per behaviour

\* repositories handed to sync: two names, two URLs, a format with an index URL
\* for each of Native and Deb and one without (Apk)
SyncRepos ==
    { Repository(n, u, f, TRUE, 10) : n \in {"main", "extra"}, u \in {"u1", "u2"},
                                      f \in {"Native", "Deb", "Apk"} }

\* lists handed to sync_all: two good repositories, a disabled one in front, an
\* unsupported one in front of a good one
SyncLists ==
    { << Repository("main", "u1", "Native", TRUE, 10),
         Repository("main", "u2", "Rpm", TRUE, 5) >>,
      << Repository("extra", "u2", "Apk", FALSE, 10),
         Repository("extra", "u1", "Deb", TRUE, 10) >>,
      << Repository("main", "u2", "Apk", TRUE, 10),
         Repository("extra", "u2", "Native", TRUE, 10) >> }

Sync(repo) ==
    /\ Len(syncs) < MaxSyncs
    /\ \E r \in {sync(repos, repo)} :
           /\ repos' = r.repos
           /\ syncs' = Append(syncs, [repo |-> repo, ok |-> r.ret.ok])
    /\ UNCHANGED <<resolverVars, dbVars, pureVars>>

SyncAll(list) ==
    /\ Len(syncs) + Len(list) <= MaxSyncs
    /\ \E r \in {sync_all([repos |-> repos, log |-> syncs, ret |-> Ok(<<>>)], list)} :
           /\ repos' = r.repos
           /\ syncs' = r.log
           /\ syncs' # syncs
    /\ UNCHANGED <<resolverVars, dbVars, pureVars>>

NextCache ==
    \/ \E repo \in SyncRepos : Sync(repo)
    \/ \E list \in SyncLists : SyncAll(list)

SpecCache == Init /\ [][NextCache]_vars

(* C25: one index per repository, the latest.  After any sequence of sync   *)
(* calls the cache holds an index for exactly the names that had a          *)
(* successful sync, one each, and the index of a name is the one built by   *)
(* the latest successful sync of that name: nothing of an earlier sync of   *)
(* the name is left.                                                        *)
SuccessfulSyncs(name) == {i \in 1..Len(syncs) : syncs[i].ok /\ syncs[i].repo.name = name}
LatestSync(name) ==
    CHOOSE i \in SuccessfulSyncs(name) : \A j \in SuccessfulSyncs(name) : j <= i

C25_LatestIndexOnly ==
    /\ DOMAIN repos = {syncs[i].repo.name : i \in {j \in 1..Len(syncs) : syncs[j].ok}}
    /\ \A name \in DOMAIN repos :
          repos[name] = BuildIndex(syncs[LatestSync(name)].repo)

\* main was synced from u1, then from u2 in another format, then a sync of main
\* failed on its format: the index of main is the one of the second call
C25_Witness ==
    /\ Len(syncs) = 3
    /\ \A i \in 1..3 : syncs[i].repo.name = "main"
    /\ syncs[1].ok /\ syncs[2].ok /\ ~syncs[3].ok
    /\ syncs[1].repo # syncs[2].repo
    /\ repos["main"].repo = syncs[2].repo
    /\ repos["main"].packages = <<>>

===========================================================================
